---- MODULE Spec2Model ----
(***************************************************************************)
(* The simulation kernel of crates/simulator: the expression IR and its    *)
(* evaluator (model.rs, Expr::eval), the evaluation engine (model.rs,      *)
(* Model) and the clock scheduler (simulator.rs, Simulator).               *)
(*                                                                         *)
(* Four specifications share the variables below:                          *)
(*   SpecEval    Expr::eval applied to bounded expression trees            *)
(*   SpecEngine  a Model driven by input / clock / reset calls             *)
(*   Spec        a Simulator owning a Model, driven by reset / run         *)
(*   FairSpec    run called on a one-clock Simulator, with the fairness    *)
(*               of run's while loop                                       *)
(***************************************************************************)
EXTENDS Integers, Sequences, FiniteSets, TLC

\* ------------------------------------------------------------------ bounds
\* Width of the signal value type (usize) in the model.  The real widths
\* (32 or 64 bits) are beyond TLC's integers; arithmetic wraps or panics at
\* 2^UsizeBits exactly as the code does at 2^64.
UsizeBits == 6
\* Largest clock period (ns) drawn for a clock domain.
MaxPeriod == 6
\* Largest duration_ns passed to run.
MaxDuration == 10
\* run is only started while simulation_time_ns + duration_ns <= MaxTime.
MaxTime == 10
\* Largest number of clock() calls issued to a stand-alone Model between resets.
MaxClocks == 3
\* The history counter of rising edges saturates here (only a stalled run gets there).
MaxEdges == 12
\* Largest number of hooks registered with add_hook.
MaxHooks == 2

UsizeModulus == 2 ^ UsizeBits
UsizeMax == UsizeModulus - 1

\* ------------------------------------------------------------------ state
VARIABLES
    overflow_checks,        \* build profile: TRUE = debug (overflow panics), FALSE = release (wraps)
    \* --- Model (model.rs:430-457) and its stand-alone driver
    model,                  \* the engine: inputs, outputs, internals, combinational, sequential, is_reset
    model2,                 \* a second copy of the same compiled engine, given the same calls
    nclk,                   \* history: clock() calls since the last reset() (or construction)
    last,                   \* history: the last public call on the engine
    was_reset,              \* history: reset() has been called on the engine
    \* --- Simulator (simulator.rs:7-17)
    clock_intervals,        \* clock name -> period [ns]
    simulation_time_ns,     \* current simulation time
    time_to_next_clock_ns,  \* clock name -> time left to the next edge
    clock_states,           \* clock name -> level (TRUE = high)
    hooks,                  \* registered hooks, in registration order
    iter_order,             \* iteration order of the simulator's HashMaps (fixed per instance)
    sim_pc,                 \* "idle" | "running" (inside run's while loop)
    end_time,               \* run's local end_time
    start_time,             \* history: simulation_time_ns when the current/last run began
    duration_ns,            \* history: the argument of the current/last run
    edges,                  \* history: Model::clock calls made by the current/last run
    fresh,                  \* history: the current/last run began in the state reset() leaves
    calls,                  \* history: hook callbacks dispatched by the last operation, in order
    sim_last,               \* history: the last operation of the simulator
    bare,                   \* the same Simulator with no hook registered, given the same calls
    waiting,                \* history: the clocks that shared the minimum of the last step and were not toggled
    \* --- Expr::eval under test
    ev_expr, ev_env, ev_result,
    \* --- AssignCollector (model.rs:64-70) walking one clocked process
    source,                 \* the process being compiled: its if_reset branch and its else branch
    collector,              \* the AssignCollector
    walk_pc                 \* position of the syntax tree walk

vars == << overflow_checks, model, model2, nclk, last, was_reset,
           clock_intervals, simulation_time_ns, time_to_next_clock_ns, clock_states,
           hooks, iter_order, sim_pc, end_time, start_time, duration_ns, edges, fresh, calls, sim_last,
           bare, waiting, ev_expr, ev_env, ev_result, source, collector, walk_pc >>

engine_vars == << model, model2, nclk, last, was_reset >>
sim_vars == << clock_intervals, simulation_time_ns, time_to_next_clock_ns, clock_states,
               hooks, iter_order, sim_pc, end_time, start_time, duration_ns, edges, fresh, calls,
               sim_last, bare, waiting >>
eval_vars == << ev_expr, ev_env, ev_result >>
compile_vars == << source, collector, walk_pc >>

\* ------------------------------------------------------------------ Expr (model.rs:15-54)
\* A panic of the evaluating thread (overflow with overflow checks, division by zero).
PANIC == -1

\* ev_result before eval has been applied.
UNEVALUATED == -2

EmptyMap == [x \in {} |-> 0]

Const(v) == [op |-> "Const", val |-> v]
Var(n) == [op |-> "Var", name |-> n]
Add(l, r) == [op |-> "Add", l |-> l, r |-> r]
Sub(l, r) == [op |-> "Sub", l |-> l, r |-> r]
Mul(l, r) == [op |-> "Mul", l |-> l, r |-> r]
Div(l, r) == [op |-> "Div", l |-> l, r |-> r]
Not(e) == [op |-> "Not", e |-> e]

\* usize + usize: panics on overflow in a build with overflow checks, wraps otherwise.
usize_add(a, b) ==
    IF a + b > UsizeMax
    THEN (IF overflow_checks THEN PANIC ELSE (a + b) % UsizeModulus)
    ELSE a + b

\* usize * usize: likewise.
usize_mul(a, b) ==
    IF a * b > UsizeMax
    THEN (IF overflow_checks THEN PANIC ELSE (a * b) % UsizeModulus)
    ELSE a * b

\* usize::wrapping_sub: the difference modulo 2^width.
wrapping_sub(a, b) == (a - b + UsizeModulus) % UsizeModulus

\* usize::saturating_sub
saturating_sub(a, b) == IF a >= b THEN a - b ELSE 0

\* The Div arm without the test of the divisor: the quotient is taken at once.
div_arm_unguarded(right_val, left_val) ==
    IF right_val = PANIC THEN PANIC ELSE
    IF left_val = PANIC THEN PANIC ELSE
    IF right_val = 0 THEN PANIC ELSE left_val \div right_val

\* The Div arm of Expr::eval (model.rs:38-45): the divisor is evaluated first
\* and the dividend only when the divisor is not 0 (left_val is not looked at
\* otherwise, so a dividend that would panic is never evaluated).
div_arm(right_val, left_val) ==
    IF right_val = PANIC THEN PANIC ELSE
    IF right_val # 0
    THEN (IF left_val = PANIC THEN PANIC ELSE left_val \div right_val)
    ELSE 0

\* Expr::eval (model.rs:28-53).  The result is a usize, or PANIC when the
\* evaluation panics; a panic of an operand propagates to the whole tree.
RECURSIVE eval(_, _)
eval(e, env) ==
    CASE e.op = "Const" -> e.val
      [] e.op = "Var" -> IF e.name \in DOMAIN env THEN env[e.name] ELSE 0
      [] e.op = "Add" ->
            LET lv == eval(e.l, env) IN
            IF lv = PANIC THEN PANIC ELSE
            LET rv == eval(e.r, env) IN
            IF rv = PANIC THEN PANIC ELSE usize_add(lv, rv)
      [] e.op = "Sub" ->
            LET lv == eval(e.l, env) IN
            IF lv = PANIC THEN PANIC ELSE
            LET rv == eval(e.r, env) IN
            IF rv = PANIC THEN PANIC ELSE saturating_sub(lv, rv)
      [] e.op = "Mul" ->
            LET lv == eval(e.l, env) IN
            IF lv = PANIC THEN PANIC ELSE
            LET rv == eval(e.r, env) IN
            IF rv = PANIC THEN PANIC ELSE usize_mul(lv, rv)
      [] e.op = "Div" -> div_arm(eval(e.r, env), eval(e.l, env))
      [] e.op = "Not" ->
            LET val == eval(e.e, env) IN
            IF val = PANIC THEN PANIC ELSE IF val = 0 THEN 1 ELSE 0

\* ------------------------------------------------------------------ Model (model.rs:429-650)
Assignment(t, e) == [target |-> t, expression |-> e]
SequentialBlock(r, c) == [reset_assignments |-> r, clock_assignments |-> c]

\* The value of a one-element set.  {F(v) : v \in {e}} evaluates e once and
\* hands its value on to F: the sequencing of two statements.
TheOne(S) == CHOOSE x \in S : TRUE

\* HashMap::insert
Insert(map, k, v) == [x \in DOMAIN map \cup {k} |-> IF x = k THEN v ELSE map[x]]

\* for (name, value) in &map { variables.insert(name.clone(), *value) }, the
\* map being visited in the order the instance's hasher gives its keys.
RECURSIVE InsertAll(_, _, _)
InsertAll(variables, map, order) ==
    IF order = << >> THEN variables
    ELSE TheOne({InsertAll(inserted, map, Tail(order)) :
                    inserted \in {IF Head(order) \in DOMAIN map
                                  THEN Insert(variables, Head(order), map[Head(order)])
                                  ELSE variables}})

\* Model::get_all_variables (model.rs:630-649): inputs, then outputs, then internals.
get_all_variables(m) ==
    TheOne({InsertAll(with_outputs, m.internals, m.order) :
               with_outputs \in {InsertAll(with_inputs, m.outputs, m.order) :
                                    with_inputs \in {InsertAll(EmptyMap, m.inputs, m.order)}}})

\* The loop body storing into whichever map holds the target, inputs included.
assign_any_signal(m, assignment) ==
    IF m.panicked THEN m
    ELSE TheOne({IF value = PANIC THEN [m EXCEPT !.panicked = TRUE]
                 ELSE IF assignment.target \in DOMAIN m.outputs
                      THEN [m EXCEPT !.outputs[assignment.target] = value]
                 ELSE IF assignment.target \in DOMAIN m.internals
                      THEN [m EXCEPT !.internals[assignment.target] = value]
                 ELSE IF assignment.target \in DOMAIN m.inputs
                      THEN [m EXCEPT !.inputs[assignment.target] = value]
                 ELSE m :
                    value \in {eval(assignment.expression, variables) :
                                 variables \in {get_all_variables(m)}}})

\* The loop body storing with a plain insert: a target that is not an output
\* becomes an internal.
assign_creating(m, assignment) ==
    IF m.panicked THEN m
    ELSE TheOne({IF value = PANIC THEN [m EXCEPT !.panicked = TRUE]
                 ELSE IF assignment.target \in DOMAIN m.outputs
                      THEN [m EXCEPT !.outputs[assignment.target] = value]
                 ELSE [m EXCEPT !.internals = Insert(m.internals, assignment.target, value)] :
                    value \in {eval(assignment.expression, variables) :
                                 variables \in {get_all_variables(m)}}})

\* The body of the loops of evaluate_combinational / evaluate_sequential_reset /
\* evaluate_sequential_clock (model.rs:577-587, 595-605, 614-624): evaluate the
\* expression against all current values, store into the output or internal of
\* that name, drop the value otherwise.  A panic of eval unwinds out of the call.
assign(m, assignment) ==
    IF m.panicked THEN m
    ELSE TheOne({IF value = PANIC THEN [m EXCEPT !.panicked = TRUE]
                 ELSE IF assignment.target \in DOMAIN m.outputs
                      THEN [m EXCEPT !.outputs[assignment.target] = value]
                 ELSE IF assignment.target \in DOMAIN m.internals
                      THEN [m EXCEPT !.internals[assignment.target] = value]
                 ELSE m :
                    value \in {eval(assignment.expression, variables) :
                                 variables \in {get_all_variables(m)}}})

\* for assignment in list { ... }
RECURSIVE assign_all(_, _)
assign_all(m, list) ==
    IF list = << >> THEN m
    ELSE TheOne({assign_all(after, Tail(list)) : after \in {assign(m, Head(list))}})

\* The assignments of a list, visited in the hasher's order of their targets.
RECURSIVE in_hash_order(_, _)
in_hash_order(list, order) ==
    IF order = << >> THEN << >>
    ELSE SelectSeq(list, LAMBDA a : a.target = Head(order)) \o in_hash_order(list, Tail(order))

\* evaluate_combinational over a map of assignments keyed by target instead of a Vec.
evaluate_combinational_hashed(m) ==
    TheOne({assign_all(m, list) : list \in {in_hash_order(m.combinational, m.order)}})

\* evaluate_combinational repeated until no value changes (at most once per
\* assignment more): forward references are resolved.
RECURSIVE settle(_, _)
settle(m, rounds) ==
    TheOne({IF rounds = 0 \/ after = m THEN after ELSE settle(after, rounds - 1) :
               after \in {assign_all(m, m.combinational)}})
evaluate_combinational_settling(m) == settle(m, Len(m.combinational))

\* evaluate_combinational visiting the assignments last to first.
RECURSIVE Reverse(_)
Reverse(list) == IF list = << >> THEN << >> ELSE Reverse(Tail(list)) \o << Head(list) >>
evaluate_combinational_reversed(m) ==
    TheOne({assign_all(m, list) : list \in {Reverse(m.combinational)}})

\* Model::evaluate_combinational (model.rs:575-589): one pass in declared order.
evaluate_combinational(m) == assign_all(m, m.combinational)

RECURSIVE reset_blocks(_, _)
reset_blocks(m, blocks) ==
    IF blocks = << >> THEN m
    ELSE TheOne({reset_blocks(after, Tail(blocks)) :
                    after \in {assign_all(m, Head(blocks).reset_assignments)}})

\* evaluate_sequential_reset that clears every output before the reset pass.
evaluate_sequential_reset_cleared(m) ==
    TheOne({reset_blocks(cleared, m.sequential) :
               cleared \in {[m EXCEPT !.outputs = [n \in DOMAIN m.outputs |-> 0]]}})

\* Model::evaluate_sequential_reset (model.rs:591-608)
evaluate_sequential_reset(m) == reset_blocks(m, m.sequential)

RECURSIVE clock_blocks(_, _)
clock_blocks(m, blocks) ==
    IF blocks = << >> THEN m
    ELSE TheOne({clock_blocks(after, Tail(blocks)) :
                    after \in {assign_all(m, Head(blocks).clock_assignments)}})

\* evaluate_sequential_clock with every expression evaluated against the
\* values held when the edge began (variables is collected once).
RECURSIVE assign_all_from(_, _, _)
assign_all_from(m, list, variables) ==
    IF list = << >> \/ m.panicked THEN m
    ELSE TheOne({assign_all_from(after, Tail(list), variables) :
                    after \in {TheOne({IF value = PANIC THEN [m EXCEPT !.panicked = TRUE]
                                       ELSE IF Head(list).target \in DOMAIN m.outputs
                                            THEN [m EXCEPT !.outputs[Head(list).target] = value]
                                       ELSE m :
                                          value \in {eval(Head(list).expression, variables)}})}})
RECURSIVE clock_blocks_from(_, _, _)
clock_blocks_from(m, blocks, variables) ==
    IF blocks = << >> THEN m
    ELSE TheOne({clock_blocks_from(after, Tail(blocks), variables) :
                    after \in {assign_all_from(m, Head(blocks).clock_assignments, variables)}})
evaluate_sequential_clock_snapshot(m) ==
    TheOne({clock_blocks_from(m, m.sequential, variables) : variables \in {get_all_variables(m)}})

\* evaluate_sequential_clock that applies only the first block's first assignment.
evaluate_sequential_clock_first(m) ==
    IF m.sequential = << >> \/ m.sequential[1].clock_assignments = << >> THEN m
    ELSE assign(m, m.sequential[1].clock_assignments[1])

\* Model::evaluate_sequential_clock (model.rs:610-627)
evaluate_sequential_clock(m) == clock_blocks(m, m.sequential)

\* Model::input with the combinational pass placed after the if, so that
\* it is run for an unknown name too.
Model_input_always_evaluates(m, port, value) ==
    TheOne({evaluate_combinational(stored) :
               stored \in {IF port \in DOMAIN m.inputs
                           THEN [m EXCEPT !.inputs[port] = value]
                           ELSE m}})

\* Model::input (model.rs:544-550)
Model_input(m, port, value) ==
    IF port \in DOMAIN m.inputs
    THEN TheOne({evaluate_combinational(stored) :
                    stored \in {[m EXCEPT !.inputs[port] = value]}})
    ELSE m

\* Model::get (model.rs:552-554): Some(v) is {v}, None is {}.
Model_get(m, port) == IF port \in DOMAIN m.outputs THEN {m.outputs[port]} ELSE {}

\* Model::clock (model.rs:556-563)
Model_clock(m) ==
    IF ~m.is_reset
    THEN TheOne({evaluate_combinational(clocked) : clocked \in {evaluate_sequential_clock(m)}})
    ELSE m

\* A reset that is never carried out.
Model_reset_skipped(m) == m

\* Model::reset that also sets every input back to 0.
Model_reset_clearing_inputs(m) ==
    TheOne({IF after.panicked THEN after
            ELSE TheOne({evaluate_combinational(released) :
                            released \in {[after EXCEPT !.is_reset = FALSE]}}) :
               after \in {evaluate_sequential_reset(in_reset) :
                             in_reset \in {[m EXCEPT !.is_reset = TRUE,
                                                     !.inputs = [n \in DOMAIN m.inputs |-> 0]]}}})

\* Model::reset without the release of line 570: is_reset stays set.
Model_reset_held(m) ==
    TheOne({IF after.panicked THEN after ELSE evaluate_combinational(after) :
               after \in {evaluate_sequential_reset(in_reset) :
                             in_reset \in {[m EXCEPT !.is_reset = TRUE]}}})

\* Model::reset (model.rs:565-573).  A panic inside the reset pass unwinds
\* before is_reset is cleared.
Model_reset(m) ==
    TheOne({IF after.panicked THEN after
            ELSE TheOne({evaluate_combinational(released) :
                            released \in {[after EXCEPT !.is_reset = FALSE]}}) :
               after \in {evaluate_sequential_reset(in_reset) :
                             in_reset \in {[m EXCEPT !.is_reset = TRUE]}}})

\* ------------------------------------------------------------------ analysed modules
\* What Model::new reads from the symbol table and the AssignCollector walk
\* for a module: its ports in declaration order and the collected IR.
Port(n, d) == [name |-> n, direction |-> d]
Module(ports, comb, seq) == [ports |-> ports, combinational |-> comb, sequential |-> seq]

\* tests/comb.veryl as used by test_comb: c = a + b.
CombTest ==
    Module(<< Port("a", "input"), Port("b", "input"), Port("c", "output") >>,
           << Assignment("c", Add(Var("a"), Var("b"))) >>,
           << >>)

\* tests/ff.veryl as used by test_ff: a toggles, b counts, both reset to 0.
FFTest ==
    Module(<< Port("clk", "input"), Port("rst", "input"),
              Port("a", "output"), Port("b", "output") >>,
           << >>,
           << SequentialBlock(<< Assignment("a", Const(0)), Assignment("b", Const(0)) >>,
                              << Assignment("a", Not(Var("a"))),
                                 Assignment("b", Add(Var("b"), Const(1))) >>) >>)

\* Two continuous assignments in dependency order: y = a; x = y + 1.
Chain ==
    Module(<< Port("a", "input"), Port("x", "output"), Port("y", "output") >>,
           << Assignment("y", Var("a")), Assignment("x", Add(Var("y"), Const(1))) >>,
           << >>)

\* The same with a forward reference: x = y is declared before y = a.
Fwd ==
    Module(<< Port("a", "input"), Port("x", "output"), Port("y", "output") >>,
           << Assignment("x", Var("y")), Assignment("y", Var("a")) >>,
           << >>)

\* A clocked process whose reset branch reads another signal:
\* if_reset { a = b + 1; b = 0; } else { b = b + 1; }
RstDep ==
    Module(<< Port("rst", "input"), Port("a", "output"), Port("b", "output") >>,
           << >>,
           << SequentialBlock(<< Assignment("a", Add(Var("b"), Const(1))),
                                 Assignment("b", Const(0)) >>,
                              << Assignment("b", Add(Var("b"), Const(1))) >>) >>)

\* A module with a variable that is not a port: var t; assign t = a; assign c = t.
Local ==
    Module(<< Port("a", "input"), Port("c", "output") >>,
           << Assignment("t", Var("a")), Assignment("c", Var("t")) >>,
           << >>)

\* Two clocked processes and a continuous assignment, each reading what the
\* one before wrote: { p = p + 1; q = p; } { r = q; } assign s = r.
Pipe ==
    Module(<< Port("p", "output"), Port("q", "output"), Port("r", "output"),
              Port("s", "output") >>,
           << Assignment("s", Var("r")) >>,
           << SequentialBlock(<< Assignment("p", Const(0)), Assignment("q", Const(0)) >>,
                              << Assignment("p", Add(Var("p"), Const(1))),
                                 Assignment("q", Var("p")) >>),
              SequentialBlock(<< Assignment("r", Const(0)) >>,
                              << Assignment("r", Var("q")) >>) >>)

\* A combinational cycle: assign x = ~y; assign y = x.
Cyc ==
    Module(<< Port("a", "input"), Port("x", "output"), Port("y", "output") >>,
           << Assignment("x", Not(Var("y"))), Assignment("y", Var("x")) >>,
           << >>)

\* Assignments to a non-port variable t and to the input port a in every
\* place an assignment can stand, around assign c = a:
\* assign t = a; assign a = 7; assign c = a;
\* always_ff { if_reset { t = 1; a = 2; } else { a = 3; t = 4; } }
Drop ==
    Module(<< Port("a", "input"), Port("c", "output") >>,
           << Assignment("t", Var("a")), Assignment("a", Const(7)),
              Assignment("c", Var("a")) >>,
           << SequentialBlock(<< Assignment("t", Const(1)), Assignment("a", Const(2)) >>,
                              << Assignment("a", Const(3)), Assignment("t", Const(4)) >>) >>)

\* symbol_table / definition_table after analysis: module name -> module.
symbol_table ==
    [CombTest |-> CombTest, FFTest |-> FFTest, Chain |-> Chain, Fwd |-> Fwd, RstDep |-> RstDep,
     Local |-> Local, Pipe |-> Pipe, Cyc |-> Cyc, Drop |-> Drop]

Range(f) == {f[i] : i \in DOMAIN f}
PortNames(top, dir) == {p.name : p \in {q \in Range(symbol_table[top].ports) : q.direction = dir}}

\* The port names in declaration order, and every order a hasher may give them.
DeclOrder(top) ==
    IF top \in DOMAIN symbol_table
    THEN [i \in DOMAIN symbol_table[top].ports |-> symbol_table[top].ports[i].name]
    ELSE << >>
HashOrders(top) ==
    LET names == Range(DeclOrder(top))
        n == Cardinality(names)
    IN  {f \in [1..n -> names] : \A i, j \in 1..n : f[i] = f[j] => i = j}

\* Model::new that fails when no module of the symbol table has the name top.
Model_new_rejecting(top, init, order) ==
    LET found == top \in DOMAIN symbol_table
    IN  IF found
        THEN TheOne({evaluate_combinational(built) :
                        built \in {[module_name |-> top,
                                    inputs |-> [n \in PortNames(top, "input") |->
                                                   IF n \in DOMAIN init THEN init[n] ELSE 0],
                                    outputs |-> [n \in PortNames(top, "output") |-> 0],
                                    internals |-> EmptyMap,
                                    combinational |-> symbol_table[top].combinational,
                                    sequential |-> symbol_table[top].sequential,
                                    is_reset |-> FALSE,
                                    order |-> order,
                                    panicked |-> FALSE]}})
        ELSE [module_name |-> top, inputs |-> EmptyMap, outputs |-> EmptyMap,
              internals |-> EmptyMap, combinational |-> << >>, sequential |-> << >>,
              is_reset |-> FALSE, order |-> order, panicked |-> TRUE]

\* Model::new (model.rs:460-542).  order is the iteration order of the new
\* instance's maps; an unknown top yields the empty engine.
Model_new(top, init, order) ==
    LET found == top \in DOMAIN symbol_table
        inputs == IF found
                  THEN [n \in PortNames(top, "input") |-> IF n \in DOMAIN init THEN init[n] ELSE 0]
                  ELSE EmptyMap
        outputs == IF found THEN [n \in PortNames(top, "output") |-> 0] ELSE EmptyMap
    IN  TheOne({evaluate_combinational(built) :
                   built \in {[module_name |-> top,
                               inputs |-> inputs,
                               outputs |-> outputs,
                               internals |-> EmptyMap,
                               combinational |->
                                   IF found THEN symbol_table[top].combinational ELSE << >>,
                               sequential |->
                                   IF found THEN symbol_table[top].sequential ELSE << >>,
                               is_reset |-> FALSE,
                               order |-> order,
                               panicked |-> FALSE]}})

\* ------------------------------------------------------------------ a Model driven directly
\* The names Model::new is called with: the analysed modules, and a name that
\* no module of the symbol table has.
Tops == {"CombTest", "FFTest", "Chain", "Fwd", "RstDep", "Local", "Pipe", "Cyc", "Drop",
         "Missing"}
\* Values passed to Model::input.
InputValues == {0, 10, 20, 30, UsizeMax}
\* Names passed to Model::input: the ports, and a name the module does not have.
InputNames(m) == DOMAIN m.inputs \cup DOMAIN m.outputs \cup {"zz"}
\* The init maps passed to Model::new.
InitMaps == {EmptyMap, [a |-> 10, b |-> 20], [a |-> 10]}

\* ------------------------------------------------------------------ AssignCollector (model.rs:64-428)
\* Largest number of statements written in one branch of a clocked process.
MaxStatements == 2

\* A statement of a branch as written: an assignment "target = expression;"
\* (the expression given as the Expr convert_expression makes of it), or a
\* statement of another shape.
AssignStatement(t, e) == [kind |-> "assign", target |-> t, expression |-> e]
OtherStatement == [kind |-> "other"]
Statements ==
    {AssignStatement("a", Const(0)), AssignStatement("b", Add(Var("b"), Const(1))),
     AssignStatement("a", Not(Var("a"))), OtherStatement}
Bodies == UNION {[1..n -> Statements] : n \in 0..MaxStatements}
\* always_ff { if_reset { reset } else { else } }; the else branch is optional
\* (none is {}, a branch b is {b}).
Sources == [reset : Bodies, else : {{}} \cup {{b} : b \in Bodies}]

\* The syntax_tree::IfResetStatement the parser hands over for a process: one
\* IfResetStatementList element, with a statement block of its own, for every
\* statement of the if_reset branch, and the else branch as the statement
\* block of if_reset_statement_opt.
IfResetStatement(src) ==
    [if_reset_statement_list |->
        [i \in DOMAIN src.reset |-> [statement_block |-> << src.reset[i] >>]],
     if_reset_statement_opt |-> {[statement_block |-> b] : b \in src.else}]

\* AssignCollector::new (model.rs:73-81); None is {}, Some(x) is {x}.
AssignCollector_new ==
    [assignments |-> << >>, sequential_blocks |-> << >>, in_always_ff |-> FALSE,
     current_sequential |-> {}, handler_point |-> "Before"]

\* Handler::set_point (model.rs:424-428)
set_point(c, p) == [c EXCEPT !.handler_point = p]

\* AssignCollector::extract_assignment_from_statement_block (model.rs:198-242):
\* Some(Assignment) for an identifier statement that is an assignment.
extract_assignment_from_statement_block(item) ==
    IF item.kind = "assign" THEN {Assignment(item.target, item.expression)} ELSE {}

\* AssignCollector::extract_assignment_from_statement (model.rs:244-258): the
\* first assignment found in the element's statement block.
RECURSIVE first_assignment(_)
first_assignment(items) ==
    IF items = << >> THEN {}
    ELSE IF extract_assignment_from_statement_block(Head(items)) # {}
         THEN extract_assignment_from_statement_block(Head(items))
         ELSE first_assignment(Tail(items))
extract_assignment_from_statement(statement) == first_assignment(statement.statement_block)

\* for x in list { if let Some(assignment) = extract(x) { push(assignment) } }
RECURSIVE push_extracted(_, _)
push_extracted(list, found) ==
    IF found = << >> THEN list
    ELSE push_extracted(IF Head(found) = {} THEN list ELSE Append(list, TheOne(Head(found))),
                        Tail(found))

\* AssignCollector::always_ff_declaration (model.rs:355-375)
always_ff_declaration(c) ==
    IF c.handler_point = "Before"
    THEN [c EXCEPT !.in_always_ff = TRUE,
                   !.current_sequential = {SequentialBlock(<< >>, << >>)}]
    ELSE [c EXCEPT !.in_always_ff = FALSE,
                   !.current_sequential = {},
                   !.sequential_blocks = IF c.current_sequential = {} THEN @
                                         ELSE Append(@, TheOne(c.current_sequential))]

\* if_reset_statement without the test of the handler point: the branches are
\* collected on entering and again on leaving the statement.
if_reset_statement_at_both_points(c, arg) ==
    IF ~c.in_always_ff \/ c.current_sequential = {} THEN c
    ELSE LET block == TheOne(c.current_sequential)
             resets == push_extracted(block.reset_assignments,
                          [i \in DOMAIN arg.if_reset_statement_list |->
                              extract_assignment_from_statement(arg.if_reset_statement_list[i])])
             clocks == IF arg.if_reset_statement_opt = {} THEN block.clock_assignments
                       ELSE LET items == TheOne(arg.if_reset_statement_opt).statement_block
                            IN  push_extracted(block.clock_assignments,
                                   [i \in DOMAIN items |->
                                       extract_assignment_from_statement_block(items[i])])
         IN  [c EXCEPT !.current_sequential = {SequentialBlock(resets, clocks)}]

\* AssignCollector::if_reset_statement (model.rs:377-411)
if_reset_statement(c, arg) ==
    IF ~c.in_always_ff THEN c
    ELSE IF c.handler_point # "Before" \/ c.current_sequential = {} THEN c
    ELSE LET block == TheOne(c.current_sequential)
             resets == push_extracted(block.reset_assignments,
                          [i \in DOMAIN arg.if_reset_statement_list |->
                              extract_assignment_from_statement(arg.if_reset_statement_list[i])])
             clocks == IF arg.if_reset_statement_opt = {} THEN block.clock_assignments
                       ELSE LET items == TheOne(arg.if_reset_statement_opt).statement_block
                            IN  push_extracted(block.clock_assignments,
                                   [i \in DOMAIN items |->
                                       extract_assignment_from_statement_block(items[i])])
         IN  [c EXCEPT !.current_sequential = {SequentialBlock(resets, clocks)}]

\* No process is being compiled.
CompileIdle ==
    /\ source = [reset |-> << >>, else |-> {}]
    /\ collector = AssignCollector_new
    /\ walk_pc = "idle"

SimIdle ==
    /\ clock_intervals = EmptyMap
    /\ simulation_time_ns = 0
    /\ time_to_next_clock_ns = EmptyMap
    /\ clock_states = EmptyMap
    /\ hooks = << >>
    /\ iter_order = << >>
    /\ sim_pc = "idle"
    /\ end_time = 0
    /\ start_time = 0
    /\ duration_ns = 0
    /\ edges = 0
    /\ fresh = FALSE
    /\ calls = << >>
    /\ sim_last = "new"
    /\ waiting = {}
    /\ bare = [simulation_time_ns |-> 0, time_to_next_clock_ns |-> EmptyMap,
               clock_states |-> EmptyMap, model |-> Model_new("", EmptyMap, << >>),
               end_time |-> 0]

EvalIdle ==
    /\ ev_expr = Const(0)
    /\ ev_env = EmptyMap
    /\ ev_result = UNEVALUATED

InitEngine ==
    /\ overflow_checks \in BOOLEAN
    /\ \E top \in Tops, init \in InitMaps :
          /\ model = Model_new(top, init, DeclOrder(top))
          /\ \E order \in HashOrders(top) : model2 = Model_new(top, init, order)
    /\ nclk = 0
    /\ last = "new"
    /\ was_reset = FALSE
    /\ SimIdle
    /\ EvalIdle
    /\ CompileIdle

\* model.input(port, value)
EngineInput ==
    /\ ~model.panicked
    /\ \E port \in InputNames(model), value \in InputValues :
          /\ model' = Model_input(model, port, value)
          /\ model2' = Model_input(model2, port, value)
          /\ last' = IF port \notin DOMAIN model.inputs THEN "input_unknown"
                     ELSE IF model.inputs[port] = value THEN "input_same"
                     ELSE "input"
    /\ UNCHANGED << overflow_checks, nclk, was_reset, sim_vars, eval_vars, compile_vars >>

\* model.clock()
EngineClock ==
    /\ ~model.panicked
    /\ nclk < MaxClocks
    /\ model' = Model_clock(model)
    /\ model2' = Model_clock(model2)
    /\ nclk' = nclk + 1
    /\ last' = "clock"
    /\ UNCHANGED << overflow_checks, was_reset, sim_vars, eval_vars, compile_vars >>

\* model.reset()
EngineReset ==
    /\ ~model.panicked
    /\ model' = Model_reset(model)
    /\ model2' = Model_reset(model2)
    /\ nclk' = 0
    /\ last' = "reset"
    /\ was_reset' = TRUE
    /\ UNCHANGED << overflow_checks, sim_vars, eval_vars, compile_vars >>

NextEngine == EngineInput \/ EngineClock \/ EngineReset

SpecEngine == InitEngine /\ [][NextEngine]_vars

\* ------------------------------------------------------------------ Expr::eval applied
Leaves == {Const(0), Const(2), Const(UsizeMax), Var("a"), Var("u")}
Depth1 ==
    Leaves
    \cup {Not(e) : e \in Leaves}
    \cup {Add(l, r) : l \in Leaves, r \in Leaves}
    \cup {Sub(l, r) : l \in Leaves, r \in Leaves}
    \cup {Mul(l, r) : l \in Leaves, r \in Leaves}
    \cup {Div(l, r) : l \in Leaves, r \in Leaves}
\* The expression trees eval is applied to.
Exprs == Depth1 \cup {Div(l, r) : l \in Depth1, r \in Depth1}
\* The environments: a bound to a value, u never bound.
Envs == {[a |-> v] : v \in {0, 3, UsizeMax}}

EngineIdle ==
    /\ model = Model_new("FFTest", EmptyMap, DeclOrder("FFTest"))
    /\ model2 = model
    /\ nclk = 0
    /\ last = "new"
    /\ was_reset = FALSE

InitEval ==
    /\ overflow_checks \in BOOLEAN
    /\ ev_expr \in Exprs
    /\ ev_env \in Envs
    /\ ev_result = UNEVALUATED
    /\ EngineIdle
    /\ SimIdle
    /\ CompileIdle

\* ev_expr.eval(&ev_env)
Evaluate ==
    /\ ev_result = UNEVALUATED
    /\ ev_result' = eval(ev_expr, ev_env)
    /\ UNCHANGED << overflow_checks, ev_expr, ev_env, engine_vars, sim_vars, compile_vars >>

NextEval == Evaluate

SpecEval == InitEval /\ [][NextEval]_vars

\* ------------------------------------------------------------------ the walk over a clocked process
\* VerylWalker::module_declaration on a module whose body is one always_ff
\* process: every handler is called on entering a node (point Before) and on
\* leaving it (point After), the nodes inside in between.
InitCompile ==
    /\ overflow_checks \in BOOLEAN
    /\ source \in Sources
    /\ collector = AssignCollector_new
    /\ walk_pc = "start"
    /\ EngineIdle
    /\ SimIdle
    /\ EvalIdle

WalkTo(pc, c) ==
    /\ collector' = c
    /\ walk_pc' = pc
    /\ UNCHANGED << overflow_checks, source, engine_vars, sim_vars, eval_vars >>

AlwaysFfBefore ==
    /\ walk_pc = "start"
    /\ WalkTo("always_ff", always_ff_declaration(set_point(collector, "Before")))

IfResetBefore ==
    /\ walk_pc = "always_ff"
    /\ WalkTo("if_reset",
              if_reset_statement(set_point(collector, "Before"), IfResetStatement(source)))

IfResetAfter ==
    /\ walk_pc = "if_reset"
    /\ WalkTo("if_reset_left",
              if_reset_statement(set_point(collector, "After"), IfResetStatement(source)))

AlwaysFfAfter ==
    /\ walk_pc = "if_reset_left"
    /\ WalkTo("done", always_ff_declaration(set_point(collector, "After")))

NextCompile == AlwaysFfBefore \/ IfResetBefore \/ IfResetAfter \/ AlwaysFfAfter

SpecCompile == InitCompile /\ [][NextCompile]_vars

\* ------------------------------------------------------------------ Simulator (simulator.rs)
\* The sentinel min_time_to_next starts from (simulator.rs:78); no pending time reaches it.
U64_MAX == 2147483647

\* The next edge scheduled a whole period ahead.
whole_period(interval) == interval

\* Half a period rounded up instead of down.
half_period_rounded_up(interval) == (interval + 1) \div 2

\* interval / 2 (simulator.rs:27, 50, 130)
half_period(interval) == interval \div 2

\* The clock tables passed to Simulator::new: none, one or two domains.
ClockTables ==
    {EmptyMap}
    \cup {[clk |-> p] : p \in 0..MaxPeriod}
    \cup {[clk |-> p, clk2 |-> q] : p \in {2, 4}, q \in 0..MaxPeriod}
    \cup {[clk |-> 1, clk2 |-> q] : q \in 0..1}

\* Every order the hasher may give the clock names.
ClockOrders(clocks) ==
    LET n == Cardinality(DOMAIN clocks)
    IN  {f \in [1..n -> DOMAIN clocks] : \A i, j \in 1..n : f[i] = f[j] => i = j}

\* One callback round in which only the first registered hook is called.
dispatch_first_only(kind, time, clock, view, levels) ==
    IF hooks = << >> THEN << >>
    ELSE << [kind |-> kind, hook |-> hooks[1], time |-> time, clock |-> clock,
             view |-> view, levels |-> levels] >>

\* One callback round with the hooks called last to first.
dispatch_backwards(kind, time, clock, view, levels) ==
    [i \in DOMAIN hooks |->
        [kind |-> kind, hook |-> hooks[Len(hooks) + 1 - i], time |-> time, clock |-> clock,
         view |-> view, levels |-> levels]]

\* for hook in &mut self.hooks { hook.<kind>(time, clock, &model) }: one record
\* per callback, with the arguments it is given, the engine outputs it can read
\* through &model (view) and the clock levels at the moment of the call (levels).
dispatch(kind, time, clock, view, levels) ==
    [i \in DOMAIN hooks |->
        [kind |-> kind, hook |-> hooks[i], time |-> time, clock |-> clock,
         view |-> view, levels |-> levels]]

\* The search that takes the first clock the iteration meets.
next_event_first(time_to_next, order) ==
    IF order = << >> THEN [min_time_to_next |-> U64_MAX, next_clock |-> ""]
    ELSE [min_time_to_next |-> time_to_next[Head(order)], next_clock |-> Head(order)]

\* The loop of step (simulator.rs:81-86) over the map in iteration order.
RECURSIVE find_min(_, _, _, _)
find_min(time_to_next, order, min_time_to_next, next_clock) ==
    IF order = << >> THEN [min_time_to_next |-> min_time_to_next, next_clock |-> next_clock]
    ELSE LET clock_name == Head(order) IN
         IF time_to_next[clock_name] < min_time_to_next
         THEN find_min(time_to_next, Tail(order), time_to_next[clock_name], clock_name)
         ELSE find_min(time_to_next, Tail(order), min_time_to_next, next_clock)

\* The search started from 0 instead of the sentinel.
next_event_from_zero(time_to_next, order) == find_min(time_to_next, order, 0, "")

\* simulator.rs:78-86: the minimum pending time and the clock that has it.
next_event(time_to_next, order) == find_min(time_to_next, order, U64_MAX, "")

\* The loop test of run taken one step too far.
run_continues_inclusive(now, end) == now <= end

\* while self.simulation_time_ns < end_time (simulator.rs:66)
run_continues(now, end) == now < end

\* Simulator::reset (simulator.rs:41-60) on a Simulator whose hooks are empty.
bare_reset(sim) ==
    [sim EXCEPT !.simulation_time_ns = 0,
                !.clock_states = [c \in DOMAIN clock_intervals |-> FALSE],
                !.time_to_next_clock_ns =
                    [c \in DOMAIN clock_intervals |-> half_period(clock_intervals[c])],
                !.model = Model_reset(sim.model)]

\* Simulator::run, entry (simulator.rs:64).
bare_run(sim, duration) == [sim EXCEPT !.end_time = sim.simulation_time_ns + duration]

\* One iteration of run's loop (simulator.rs:66-67, 76-132) on a Simulator
\* whose hooks are empty: the three hook loops have nothing to visit.
bare_step(sim) ==
    IF ~run_continues(sim.simulation_time_ns, sim.end_time) \/ sim.model.panicked THEN sim
    ELSE LET next == next_event(sim.time_to_next_clock_ns, iter_order)
             min_time_to_next == next.min_time_to_next
             next_clock == next.next_clock
         IN  IF min_time_to_next = U64_MAX THEN sim
             ELSE LET elapsed == [c \in DOMAIN sim.time_to_next_clock_ns |->
                                     sim.time_to_next_clock_ns[c] - min_time_to_next]
                      new_state == ~sim.clock_states[next_clock]
                  IN  IF next_clock = ""
                      THEN [sim EXCEPT !.simulation_time_ns = @ + min_time_to_next,
                                       !.time_to_next_clock_ns = elapsed]
                      ELSE [sim EXCEPT
                               !.simulation_time_ns = @ + min_time_to_next,
                               !.clock_states[next_clock] = new_state,
                               !.time_to_next_clock_ns =
                                   [elapsed EXCEPT ![next_clock] =
                                       half_period(clock_intervals[next_clock])],
                               !.model = IF new_state THEN Model_clock(sim.model)
                                         ELSE sim.model]

\* Simulator::new (simulator.rs:20-39) around the engine of test_ff_simulator.
Init ==
    /\ overflow_checks \in BOOLEAN
    /\ EngineIdle
    /\ EvalIdle
    /\ CompileIdle
    /\ clock_intervals \in ClockTables
    /\ iter_order \in ClockOrders(clock_intervals)
    /\ simulation_time_ns = 0
    /\ time_to_next_clock_ns = [c \in DOMAIN clock_intervals |-> half_period(clock_intervals[c])]
    /\ clock_states = [c \in DOMAIN clock_intervals |-> FALSE]
    /\ hooks = << >>
    /\ sim_pc = "idle"
    /\ end_time = 0
    /\ start_time = 0
    /\ duration_ns = 0
    /\ edges = 0
    /\ fresh = FALSE
    /\ calls = << >>
    /\ sim_last = "new"
    /\ waiting = {}
    /\ bare = [simulation_time_ns |-> simulation_time_ns,
               time_to_next_clock_ns |-> time_to_next_clock_ns,
               clock_states |-> clock_states, model |-> model, end_time |-> end_time]

\* Every clock is low with half a period to go and the time is 0: the state new and reset leave.
Pristine ==
    /\ simulation_time_ns = 0
    /\ \A c \in DOMAIN clock_intervals :
          /\ ~clock_states[c]
          /\ time_to_next_clock_ns[c] = half_period(clock_intervals[c])

\* Simulator::add_hook (simulator.rs:135-137); a hook is named by its registration number.
AddHook ==
    /\ sim_pc = "idle"
    /\ ~model.panicked
    /\ Len(hooks) < MaxHooks
    /\ hooks' = Append(hooks, Len(hooks) + 1)
    /\ calls' = << >>
    /\ sim_last' = "add_hook"
    /\ UNCHANGED << overflow_checks, engine_vars, eval_vars, compile_vars, clock_intervals, simulation_time_ns,
                    time_to_next_clock_ns, clock_states, iter_order, sim_pc, end_time,
                    start_time, duration_ns, edges, fresh, bare, waiting >>

\* Simulator::reset that sets the time back and resets the engine but leaves
\* the levels and pending times of the clocks as they are.
Reset_keeping_schedule ==
    /\ sim_pc = "idle"
    /\ ~model.panicked
    /\ simulation_time_ns' = 0
    /\ model' = Model_reset(model)
    /\ calls' = IF model'.panicked THEN << >>
                ELSE dispatch("on_reset", 0, "", model'.outputs, clock_states)
    /\ sim_last' = "reset"
    /\ waiting' = {}
    /\ bare' = bare_reset(bare)
    /\ UNCHANGED << overflow_checks, model2, nclk, last, was_reset, eval_vars, compile_vars,
                    clock_intervals, clock_states, time_to_next_clock_ns,
                    hooks, iter_order, sim_pc, end_time, start_time, duration_ns, edges, fresh >>

\* Simulator::reset with the engine's reset placed inside the loop over the
\* hooks: it is carried out once per hook, and not at all without hooks.
Reset_inside_hook_loop ==
    /\ sim_pc = "idle"
    /\ ~model.panicked
    /\ simulation_time_ns' = 0
    /\ clock_states' = [c \in DOMAIN clock_intervals |-> FALSE]
    /\ time_to_next_clock_ns' =
          [c \in DOMAIN clock_intervals |-> half_period(clock_intervals[c])]
    /\ model' = IF hooks = << >> THEN model ELSE Model_reset(model)
    /\ calls' = IF model'.panicked THEN << >>
                ELSE dispatch("on_reset", 0, "", model'.outputs, clock_states')
    /\ sim_last' = "reset"
    /\ waiting' = {}
    /\ bare' = bare_reset(bare)
    /\ UNCHANGED << overflow_checks, model2, nclk, last, was_reset, eval_vars, compile_vars, clock_intervals,
                    hooks, iter_order, sim_pc, end_time, start_time, duration_ns, edges, fresh >>

\* Simulator::reset (simulator.rs:41-60)
Reset ==
    /\ sim_pc = "idle"
    /\ ~model.panicked
    /\ simulation_time_ns' = 0
    /\ clock_states' = [c \in DOMAIN clock_intervals |-> FALSE]
    /\ time_to_next_clock_ns' =
          [c \in DOMAIN clock_intervals |-> half_period(clock_intervals[c])]
    /\ model' = Model_reset(model)
    /\ calls' = IF model'.panicked THEN << >>
                ELSE dispatch("on_reset", 0, "", model'.outputs, clock_states')
    /\ sim_last' = "reset"
    /\ waiting' = {}
    /\ bare' = bare_reset(bare)
    /\ UNCHANGED << overflow_checks, model2, nclk, last, was_reset, eval_vars, compile_vars, clock_intervals,
                    hooks, iter_order, sim_pc, end_time, start_time, duration_ns, edges, fresh >>

\* Simulator::run (simulator.rs:63-64): entry, up to the while loop.
RunStart ==
    /\ sim_pc = "idle"
    /\ ~model.panicked
    /\ \E duration \in 0..MaxDuration :
          /\ simulation_time_ns + duration <= MaxTime
          /\ end_time' = simulation_time_ns + duration
          /\ duration_ns' = duration
          /\ bare' = bare_run(bare, duration)
    /\ start_time' = simulation_time_ns
    /\ edges' = 0
    /\ fresh' = Pristine
    /\ sim_pc' = "running"
    /\ calls' = << >>
    /\ sim_last' = "run"
    /\ UNCHANGED waiting
    /\ UNCHANGED << overflow_checks, engine_vars, eval_vars, compile_vars, clock_intervals, simulation_time_ns,
                    time_to_next_clock_ns, clock_states, hooks, iter_order >>

\* One iteration of run's while loop: Simulator::step (simulator.rs:66-68, 76-132).
Step ==
    /\ sim_pc = "running"
    /\ ~model.panicked
    /\ run_continues(simulation_time_ns, end_time)
    /\ LET next == next_event(time_to_next_clock_ns, iter_order)
           min_time_to_next == next.min_time_to_next
           next_clock == next.next_clock
           now == simulation_time_ns + min_time_to_next
       IN  IF min_time_to_next = U64_MAX
           THEN /\ calls' = << >>
                /\ UNCHANGED << simulation_time_ns, time_to_next_clock_ns, clock_states,
                                model, edges >>
           ELSE LET elapsed == [c \in DOMAIN time_to_next_clock_ns |->
                                   time_to_next_clock_ns[c] - min_time_to_next]
                    new_state == ~clock_states[next_clock]
                    clocked == Model_clock(model)
                IN  /\ simulation_time_ns' = now
                    /\ IF next_clock # ""
                       THEN /\ clock_states' = [clock_states EXCEPT ![next_clock] = new_state]
                            /\ time_to_next_clock_ns' =
                                  [elapsed EXCEPT ![next_clock] =
                                      half_period(clock_intervals[next_clock])]
                            /\ model' = IF new_state THEN clocked ELSE model
                            /\ edges' = IF new_state /\ edges < MaxEdges THEN edges + 1 ELSE edges
                            /\ calls' =
                                  dispatch("on_step", now, "", model.outputs, clock_states)
                                  \o (IF new_state
                                      THEN dispatch("pre_clock", now, next_clock,
                                                    model.outputs, clock_states')
                                           \o (IF clocked.panicked THEN << >>
                                               ELSE dispatch("post_clock", now, next_clock,
                                                             clocked.outputs, clock_states'))
                                      ELSE << >>)
                       ELSE /\ time_to_next_clock_ns' = elapsed
                            /\ calls' = dispatch("on_step", now, "", model.outputs, clock_states)
                            /\ UNCHANGED << clock_states, model, edges >>
    /\ sim_last' = "step"
    /\ waiting' = LET next == next_event(time_to_next_clock_ns, iter_order)
                  IN  {c \in DOMAIN time_to_next_clock_ns :
                          time_to_next_clock_ns[c] = next.min_time_to_next} \ {next.next_clock}
    /\ bare' = bare_step(bare)
    /\ UNCHANGED << overflow_checks, model2, nclk, last, was_reset, eval_vars, compile_vars, clock_intervals,
                    hooks, iter_order, sim_pc, end_time, start_time, duration_ns, fresh >>

\* Simulator::run (simulator.rs:66, 70-74): the loop ends, the hooks are told.
RunFinish ==
    /\ sim_pc = "running"
    /\ ~model.panicked
    /\ ~run_continues(simulation_time_ns, end_time)
    /\ calls' = dispatch("on_finish", simulation_time_ns, "", model.outputs, clock_states)
    /\ sim_pc' = "idle"
    /\ sim_last' = "finish"
    /\ UNCHANGED << overflow_checks, engine_vars, eval_vars, compile_vars, clock_intervals, simulation_time_ns,
                    time_to_next_clock_ns, clock_states, hooks, iter_order, end_time,
                    start_time, duration_ns, edges, fresh, bare, waiting >>

Next == AddHook \/ Reset \/ RunStart \/ Step \/ RunFinish

Spec == Init /\ [][Next]_vars

\* A simulator with one clock domain of a positive period and no hook, on
\* which run is called again and again.  run is a sequential loop: while its
\* condition holds the next step is taken, and when it fails the finish
\* callbacks follow.
InitRun ==
    /\ Init
    /\ Cardinality(DOMAIN clock_intervals) = 1
    /\ \A c \in DOMAIN clock_intervals : clock_intervals[c] >= 1
NextRun == RunStart \/ Step \/ RunFinish
FairSpec == InitRun /\ [][NextRun]_vars /\ WF_vars(Step) /\ WF_vars(RunFinish)

\* ------------------------------------------------------------------ claims on the Model
\* C3: the toggle + counter engine, once reset() has been called: after n
\* clock() calls since the last reset(), get("a") = n mod 2 and get("b") = n
\* (0, 0 right after the reset; 1, 1 after one edge; 0, 2 after two).
C3_ToggleCounter ==
    (model.module_name = "FFTest" /\ was_reset) =>
        /\ Model_get(model, "a") = {nclk % 2}
        /\ Model_get(model, "b") = {nclk}

C3_Witness ==
    /\ model.module_name = "FFTest"
    /\ was_reset
    /\ last = "clock"
    /\ nclk = 2
    /\ Model_get(model, "a") = {0}
    /\ Model_get(model, "b") = {2}

\* C4: for c = a + b, get("c") is the sum of the two inputs (in the value
\* type's arithmetic, modulo 2^width) after construction from the init map and
\* after every sequence of input calls.
C4_CombTracking ==
    model.module_name = "CombTest" =>
        Model_get(model, "c") = {(model.inputs["a"] + model.inputs["b"]) % UsizeModulus}

\* C5: two copies of the same compiled engine, whatever order their maps are
\* iterated in, return the same get() results after the same sequence of
\* input / clock / reset calls, and panic together.
C5_Determinism ==
    /\ model.panicked = model2.panicked
    /\ \A n \in InputNames(model) : Model_get(model, n) = Model_get(model2, n)

C5_Witness ==
    /\ model.module_name = "Chain"
    /\ model2.order # model.order
    /\ last = "input"
    /\ Model_get(model, "x") = {11}
    /\ Model_get(model2, "x") = {11}

\* The signal names an expression reads.
RECURSIVE reads(_)
reads(e) ==
    CASE e.op = "Const" -> {}
      [] e.op = "Var" -> {e.name}
      [] e.op = "Not" -> reads(e.e)
      [] OTHER -> reads(e.l) \cup reads(e.r)

\* No continuous assignment reads its own target or the target of a later one.
NoForwardRead(m) ==
    \A i \in DOMAIN m.combinational : \A j \in DOMAIN m.combinational :
        j >= i => m.combinational[j].target \notin reads(m.combinational[i].expression)

\* C6 as stated: for any engine, input(name, v) with the value the input
\* already holds changes no output.
C6_PurityAnyEngine ==
    [][last' = "input_same" => model'.outputs = model.outputs]_vars

\* C6 amended: the same for every engine in which no continuous assignment
\* reads its own target or the target of a later-declared assignment.
C6_PurityNoForwardRead ==
    [][(last' = "input_same" /\ NoForwardRead(model)) => model'.outputs = model.outputs]_vars

C6_Witness ==
    /\ model.module_name = "Chain"
    /\ last = "input_same"
    /\ model.inputs["a"] = 10
    /\ Model_get(model, "x") = {11}

\* The reset-branch assignments of all blocks, in execution order.
RECURSIVE ResetList(_)
ResetList(blocks) ==
    IF blocks = << >> THEN << >>
    ELSE Head(blocks).reset_assignments \o ResetList(Tail(blocks))

AllZeroEnv(m) == [n \in DOMAIN get_all_variables(m) |-> 0]

\* C7 as stated: after reset() every output assigned in a reset branch holds
\* the value of its reset expression in the all-zero environment.
C7_ResetAgainstZeroEnv ==
    (last = "reset" /\ ~model.panicked) =>
        \A i \in DOMAIN ResetList(model.sequential) :
            LET a == ResetList(model.sequential)[i] IN
            a.target \in DOMAIN model.outputs =>
                model.outputs[a.target] = eval(a.expression, AllZeroEnv(model))

\* The environment the i-th reset assignment sees: the pre-reset values, with
\* the targets of the earlier reset assignments at their new values.
EnvAtReset(pre, post, i) ==
    LET list == ResetList(pre.sequential)
        earlier == {list[k].target : k \in 1..(i - 1)} \cap DOMAIN pre.outputs
        env == get_all_variables(pre)
    IN  [n \in DOMAIN env |-> IF n \in earlier THEN post.outputs[n] ELSE env[n]]

\* Each output is the target of at most one reset assignment and of no continuous assignment.
SingleDriver(m) ==
    /\ \A i, j \in DOMAIN ResetList(m.sequential) :
          ResetList(m.sequential)[i].target = ResetList(m.sequential)[j].target => i = j
    /\ \A i \in DOMAIN m.combinational : \A j \in DOMAIN ResetList(m.sequential) :
          m.combinational[i].target # ResetList(m.sequential)[j].target

\* C7 amended: after reset() every (singly driven) output assigned in a reset
\* branch holds the value of its reset expression in the environment current
\* when the assignment ran: the pre-reset values of the signals, with the
\* signals written earlier in the same reset pass at their new values.
C7_ResetAgainstCurrentEnv ==
    [][(last' = "reset" /\ ~model'.panicked /\ SingleDriver(model)) =>
          \A i \in DOMAIN ResetList(model.sequential) :
              LET a == ResetList(model.sequential)[i] IN
              a.target \in DOMAIN model.outputs =>
                  model'.outputs[a.target] = eval(a.expression, EnvAtReset(model, model', i))]_vars

C7_Witness ==
    /\ model.module_name = "RstDep"
    /\ last = "reset"
    /\ Model_get(model, "a") = {3}
    /\ Model_get(model, "b") = {0}

\* ------------------------------------------------------------------ claims on Expr::eval
\* C8: a Div whose divisor evaluates to 0 evaluates to 0, whatever its
\* dividend is (also one whose own evaluation would panic), and does not panic.
C8_DivByZeroIsZero ==
    (ev_result # UNEVALUATED /\ ev_expr.op = "Div" /\ eval(ev_expr.r, ev_env) = 0) =>
        ev_result = 0

C8_Witness ==
    /\ overflow_checks
    /\ ev_expr = Div(Add(Const(UsizeMax), Const(UsizeMax)), Sub(Const(2), Var("a")))
    /\ ev_env["a"] = 3
    /\ ev_result = 0

\* ------------------------------------------------------------------ claims on the Simulator
SingleClock == Cardinality(DOMAIN clock_intervals) = 1
\* The period of the only clock domain.
P == clock_intervals[CHOOSE c \in DOMAIN clock_intervals : TRUE]
CeilDiv(a, b) == (a + b - 1) \div b

\* The number of rising edges the specification states for run(D) on period P:
\* floor(max(0, D - P/2) / P) + (1 if D >= P/2 else 0).
StatedEdges(period, D) ==
    LET rest == IF D - (period \div 2) > 0 THEN D - (period \div 2) ELSE 0
    IN  (rest \div period) + (IF D >= period \div 2 THEN 1 ELSE 0)

\* The same count with P/2 taken as the exact half of an odd period.
StatedEdgesExact(period, D) ==
    LET rest == IF 2 * D - period > 0 THEN 2 * D - period ELSE 0
    IN  (rest \div (2 * period)) + (IF 2 * D >= period THEN 1 ELSE 0)

\* run(D) from the state reset() leaves has returned, with a single clock domain.
RunReturned == sim_last = "finish" /\ fresh /\ SingleClock

\* C1 as stated: run(D) on a single clock of period P, started low, triggers
\* exactly floor(max(0, D - P/2) / P) + (1 if D >= P/2 else 0) rising edges,
\* P/2 read as the integer quotient or as the exact half.
C1_StatedEdgeCount ==
    (RunReturned /\ P > 0) =>
        \/ edges = StatedEdges(P, duration_ns)
        \/ edges = StatedEdgesExact(P, duration_ns)

\* C1 amended: with h = floor(P/2), run(D) returns only if D = 0 or h >= 1,
\* and has then triggered ceil(ceil(D/h)/2) rising edges (none for D = 0): the
\* edges up to the first event at or after D.  For an even P this is the stated
\* count exactly when D mod P = 0 or D mod P >= P/2.
C1_EdgeCount ==
    RunReturned =>
        /\ duration_ns = 0 => edges = 0
        /\ duration_ns > 0 =>
              /\ P \div 2 >= 1
              /\ edges = CeilDiv(CeilDiv(duration_ns, P \div 2), 2)
              /\ P % 2 = 0 =>
                    ((duration_ns % P = 0 \/ duration_ns % P >= P \div 2)
                        <=> edges = StatedEdges(P, duration_ns))

C1_Witness ==
    /\ RunReturned
    /\ P = 4
    /\ duration_ns = 5
    /\ edges = 2
    /\ simulation_time_ns = 6

\* C2: with one clock domain of even period P (P > 0), reset() then run(k * P)
\* makes exactly k rising edges and ends at simulation_time_ns = k * P (5 edges
\* for run(5 * P), the scenario of test_ff_simulator).
C2_ScheduledRun ==
    (RunReturned /\ P > 0 /\ P % 2 = 0 /\ duration_ns % P = 0) =>
        /\ edges = duration_ns \div P
        /\ simulation_time_ns = duration_ns

C2_Witness ==
    /\ RunReturned
    /\ P = 2
    /\ duration_ns = 5 * P
    /\ edges = 5
    /\ simulation_time_ns = 5 * P
    /\ Model_get(model, "b") = {5}

\* The minimum pending time over all clock domains (0 when there is none).
MinPending ==
    IF DOMAIN time_to_next_clock_ns = {} THEN 0
    ELSE CHOOSE t \in Range(time_to_next_clock_ns) :
            \A c \in DOMAIN time_to_next_clock_ns : t <= time_to_next_clock_ns[c]

\* C9 as stated: no operation, reset included, decreases simulation_time_ns,
\* and a step adds the minimum pending time to it.
C9_TimeNeverDecreases ==
    [][/\ simulation_time_ns' >= simulation_time_ns
       /\ sim_last' = "step" => simulation_time_ns' = simulation_time_ns + MinPending]_vars

\* C9 amended: reset() sets simulation_time_ns to 0; no other operation
\* decreases it, and a step adds exactly the minimum pending time over all
\* clock domains as it stood when the step began.
C9_TimeAdvance ==
    [][/\ sim_last' = "reset" => simulation_time_ns' = 0
       /\ sim_last' # "reset" => simulation_time_ns' >= simulation_time_ns
       /\ sim_last' = "step" => simulation_time_ns' = simulation_time_ns + MinPending]_vars

C9_Witness ==
    /\ sim_last = "step"
    /\ Cardinality(DOMAIN clock_intervals) = 2
    /\ simulation_time_ns = 3
    /\ \E c \in DOMAIN clock_intervals : time_to_next_clock_ns[c] = 1

\* C10 as stated: with at least one clock domain, whatever its period, every
\* run(duration_ns) leaves its loop and reaches the finish callbacks.
C10_RunTerminates ==
    (sim_pc = "running" /\ DOMAIN clock_intervals # {}) ~> (sim_last = "finish")

\* C11: with an empty clock table a step changes no scheduler or engine state
\* and dispatches no callback, and run(D) with D > 0 never reaches the finish
\* callbacks.
C11_NoClockDomain ==
    /\ [][(sim_last' = "step" /\ DOMAIN clock_intervals = {}) =>
            /\ calls' = << >>
            /\ UNCHANGED << model, clock_intervals, simulation_time_ns,
                            time_to_next_clock_ns, clock_states, hooks >>]_vars
    /\ []((DOMAIN clock_intervals = {} /\ duration_ns > 0) => sim_last # "finish")

C11_Witness ==
    /\ DOMAIN clock_intervals = {}
    /\ sim_pc = "running"
    /\ sim_last = "step"
    /\ duration_ns = 3
    /\ Len(hooks) = 2
    /\ calls = << >>
    /\ simulation_time_ns = 0

\* A round of callbacks of one kind: every registered hook once, in
\* registration order, all with the same arguments.
Round(kind, time, clock, view, levels) ==
    [i \in 1..Len(hooks) |->
        [kind |-> kind, hook |-> hooks[i], time |-> time, clock |-> clock,
         view |-> view, levels |-> levels]]

\* C12: a step with a clock domain toggles exactly one domain c.  Its step
\* callbacks get the advanced time and run before the level toggles.  On a
\* rising edge the pre-clock round follows, seeing the engine as it was, then
\* the engine's clock() is executed once (the counter b of the engine counts
\* by one), then the post-clock round, seeing the new outputs; pre- and
\* post-clock get the same time and the name c.  On a falling edge there is no
\* pre-clock, clock() or post-clock.  (Checked for the first MaxEdges rising
\* edges of a run.)
C12_StepOrdering ==
    [][(sim_last' = "step" /\ DOMAIN clock_intervals # {} /\ edges < MaxEdges) =>
          LET toggled == {c \in DOMAIN clock_states : clock_states'[c] # clock_states[c]}
              now == simulation_time_ns'
              step_round == Round("on_step", now, "", model.outputs, clock_states)
          IN  /\ Cardinality(toggled) = 1
              /\ \A c \in toggled :
                    IF clock_states'[c]
                    THEN /\ model'.outputs["b"] = model.outputs["b"] + 1
                         /\ edges' = edges + 1
                         /\ calls' = step_round
                                     \o Round("pre_clock", now, c, model.outputs, clock_states')
                                     \o Round("post_clock", now, c, model'.outputs, clock_states')
                    ELSE /\ model' = model
                         /\ edges' = edges
                         /\ calls' = step_round]_vars

C12_Witness ==
    /\ sim_last = "step"
    /\ Len(hooks) = 2
    /\ Len(calls) = 6
    /\ calls[1].kind = "on_step" /\ calls[1].hook = 1
    /\ calls[3].kind = "pre_clock" /\ calls[3].view["b"] = 1
    /\ calls[5].kind = "post_clock" /\ calls[5].view["b"] = 2
    /\ calls[1].time = calls[5].time
    /\ calls[5].clock = "clk2"

\* C13: after reset(), from any scheduler state, every clock domain is low
\* with period/2 to its next edge, simulation_time_ns is 0, the engine has been
\* reset (the toggle and the counter are 0 and is_reset is cleared again), and
\* the callbacks made are one on_reset per hook, with time 0 and seeing the
\* engine after its reset.
C13_SchedulerReset ==
    sim_last = "reset" =>
        /\ \A c \in DOMAIN clock_intervals :
              /\ clock_states[c] = FALSE
              /\ time_to_next_clock_ns[c] = clock_intervals[c] \div 2
        /\ DOMAIN clock_states = DOMAIN clock_intervals
        /\ DOMAIN time_to_next_clock_ns = DOMAIN clock_intervals
        /\ simulation_time_ns = 0
        /\ model.outputs = [a |-> 0, b |-> 0]
        /\ ~model.is_reset
        /\ calls = Round("on_reset", 0, "", [a |-> 0, b |-> 0], clock_states)

\* reset() after a run of two rising edges (the counter was 2), with two hooks.
C13_Witness ==
    /\ sim_last = "reset"
    /\ edges = 2
    /\ start_time # 0
    /\ Len(hooks) = 2
    /\ Len(calls) = 2
    /\ calls[2].kind = "on_reset"
    /\ calls[2].view["b"] = 0
    /\ simulation_time_ns = 0

\* C14: whatever hooks are registered (none, one or several, added at any
\* time), after every sequence of reset / run calls the simulation time, the
\* levels and pending times of the clock domains and the engine (its signal
\* values) are those of the same simulator with no hook, given the same calls.
C14_ObserverNonInterference ==
    /\ simulation_time_ns = bare.simulation_time_ns
    /\ time_to_next_clock_ns = bare.time_to_next_clock_ns
    /\ clock_states = bare.clock_states
    /\ model = bare.model
    /\ end_time = bare.end_time

\* Two hooks have just been told of the third rising edge since the reset.
C14_Witness ==
    /\ Len(hooks) = 2
    /\ sim_last = "step"
    /\ Len(calls) = 6
    /\ calls[6].kind = "post_clock"
    /\ calls[6].view["b"] = 3
    /\ bare.model.outputs["b"] = 3
    /\ bare.simulation_time_ns = simulation_time_ns
    /\ simulation_time_ns > 0


\* The callback kinds of the Hook trait (hooks/mod.rs:12-27).
HookKinds == {"on_step", "pre_clock", "post_clock", "on_reset", "on_finish"}

\* C15: hooks holds the observers in the order of their registration (the
\* k-th add_hook registered observer k), and the callbacks of every operation
\* are a sequence of dispatches, each of which calls every registered hook
\* exactly once, first registered first, all with the same kind, time and
\* clock name.  A reset dispatches one on_reset round, the end of a run one
\* on_finish round; with no hook nothing is called.
C15_RegistrationOrder ==
    LET n == Len(hooks)
    IN  /\ \A i \in 1..n : hooks[i] = i
        /\ n = 0 => calls = << >>
        /\ n > 0 =>
              /\ Len(calls) % n = 0
              /\ \A k \in 1..Len(calls) :
                    LET pos == ((k - 1) % n) + 1
                        head == calls[k - (pos - 1)]
                    IN  /\ calls[k].hook = hooks[pos]
                        /\ calls[k].kind \in HookKinds
                        /\ calls[k].kind = head.kind
                        /\ calls[k].time = head.time
                        /\ calls[k].clock = head.clock
              /\ \A k \in 1..(Len(calls) \div n) - 1 :
                    calls[k * n].kind # calls[k * n + 1].kind
        /\ (sim_last = "reset" /\ ~model.panicked) =>
              /\ Len(calls) = n
              /\ \A k \in 1..n : calls[k].kind = "on_reset"
        /\ sim_last = "finish" =>
              /\ Len(calls) = n
              /\ \A k \in 1..n : calls[k].kind = "on_finish"

\* Two hooks, a run with rising edges has ended: on_finish went to hook 1, then to hook 2.
C15_Witness ==
    /\ sim_last = "finish"
    /\ Len(hooks) = 2
    /\ edges > 0
    /\ calls[1].kind = "on_finish" /\ calls[1].hook = 1
    /\ calls[2].kind = "on_finish" /\ calls[2].hook = 2

\* C16: Model::input with a name that is not a key of inputs (the name of an
\* output, or a name the module does not have) does not panic and leaves the
\* engine as it was: the same inputs, outputs, internals (keys and values),
\* whatever the hasher's order.
C16_UnknownInputIgnored ==
    [][last' = "input_unknown" =>
          /\ model' = model
          /\ model2' = model2
          /\ ~model'.panicked
          /\ DOMAIN model'.inputs = DOMAIN model.inputs
          /\ DOMAIN model'.outputs = DOMAIN model.outputs
          /\ DOMAIN model'.internals = DOMAIN model.internals]_vars

\* An unknown name was given to the forward-referencing module while its
\* output x was behind y: another pass would have changed x.
C16_Witness ==
    /\ last = "input_unknown"
    /\ model.module_name = "Fwd"
    /\ model.inputs["a"] = 10
    /\ model.outputs["y"] = 10
    /\ model.outputs["x"] = 0

\* The keys Model::new gives a map of the engine compiled from top.
KeysAtConstruction(top, dir) == IF top \in DOMAIN symbol_table THEN PortNames(top, dir) ELSE {}

\* C17: in every engine state reached by input / clock / reset calls the keys
\* of inputs, outputs and internals are pairwise disjoint, and they are the
\* keys Model::new gave them: the input ports, the output ports, and (the
\* map being created empty at model.rs:464) no internal.
C17_SignalPartition ==
    \A m \in {model, model2} :
        /\ DOMAIN m.inputs \cap DOMAIN m.outputs = {}
        /\ DOMAIN m.inputs \cap DOMAIN m.internals = {}
        /\ DOMAIN m.outputs \cap DOMAIN m.internals = {}
        /\ DOMAIN m.inputs = KeysAtConstruction(m.module_name, "input")
        /\ DOMAIN m.outputs = KeysAtConstruction(m.module_name, "output")
        /\ DOMAIN m.internals = {}

\* The module with the non-port variable t after input, reset and clock calls:
\* t is assigned in every pass and still is no signal of the engine.
C17_Witness ==
    /\ model.module_name = "Local"
    /\ model.inputs["a"] = 30
    /\ was_reset
    /\ nclk > 0
    /\ DOMAIN model.internals = {}
    /\ DOMAIN model.outputs = {"c"}

\* C18: eval returns a value for every expression tree and environment: it
\* never panics, an Add or Mul beyond the usize range included.
C18_TotalEvaluation == ev_result # PANIC

\* Names asked of Model::get on the engine of an unknown top.
ProbedNames == {"a", "b", "c", "clk", "x", "zz"}

\* C19: Model::new with a name no module has yields an engine without inputs,
\* outputs, internals and IR, and that is what it stays: get returns None for
\* every name, and input, clock and reset neither panic nor change anything.
C19_UnresolvedTop ==
    \A m \in {model, model2} :
        m.module_name \notin DOMAIN symbol_table =>
            /\ m.inputs = EmptyMap
            /\ m.outputs = EmptyMap
            /\ m.internals = EmptyMap
            /\ m.combinational = << >>
            /\ m.sequential = << >>
            /\ ~m.is_reset
            /\ ~m.panicked
            /\ \A n \in ProbedNames : Model_get(m, n) = {}

\* The engine of the unknown top has been reset, clocked and given an input.
C19_Witness ==
    /\ model.module_name = "Missing"
    /\ was_reset
    /\ nclk > 0
    /\ last = "input_unknown"
    /\ Model_get(model, "a") = {}

\* C20: a subtraction whose operands evaluate to l and r evaluates to l - r
\* when l >= r and to 0 when l < r: a usize, never a wrapped difference and
\* never a panic.
C20_SaturatingSub ==
    (ev_result # UNEVALUATED /\ ev_expr.op = "Sub") =>
        LET l == eval(ev_expr.l, ev_env)
            r == eval(ev_expr.r, ev_env)
        IN  /\ l \in 0..UsizeMax
            /\ r \in 0..UsizeMax
            /\ ev_result \in 0..UsizeMax
            /\ l >= r => ev_result = l - r
            /\ l < r => ev_result = 0

\* Sub(Const(2), Var("a")) with a = 3 has been evaluated to 0.
C20_Witness ==
    /\ ev_expr = Sub(Const(2), Var("a"))
    /\ ev_env = [a |-> 3]
    /\ ev_result = 0

\* C21: is_reset is false in every state between two calls (after Model::new,
\* input, clock and reset), for either hash order; hence every clock() call
\* runs the clock assignments followed by a combinational pass, and none is
\* skipped because of is_reset.
C21_ResetTransient ==
    /\ [](~model.is_reset /\ ~model2.is_reset)
    /\ [][last' = "clock" =>
             /\ model' = evaluate_combinational(evaluate_sequential_clock(model))
             /\ model2' = evaluate_combinational(evaluate_sequential_clock(model2))]_vars

\* The toggle/counter engine was reset and then clocked: the edge after the
\* reset was applied (a toggled, b counted) and is_reset is false.
C21_Witness ==
    /\ model.module_name = "FFTest"
    /\ was_reset
    /\ last = "clock"
    /\ nclk = 1
    /\ model.outputs = [a |-> 1, b |-> 1]
    /\ ~model.is_reset

\* The assignments written in a branch, in the order they are written.
RECURSIVE Written(_)
Written(branch) ==
    IF branch = << >> THEN << >>
    ELSE (IF Head(branch).kind = "assign"
          THEN << Assignment(Head(branch).target, Head(branch).expression) >>
          ELSE << >>) \o Written(Tail(branch))

C23_ClockPassOrdering ==
    \A m \in {model, model2} :
        m.module_name = "Pipe" =>
            m.outputs = [p |-> nclk, q |-> nclk, r |-> nclk, s |-> nclk]

\* Two edges after a reset.
C23_Witness ==
    /\ model.module_name = "Pipe"
    /\ was_reset
    /\ nclk = 2
    /\ Model_get(model, "q") = {2}
    /\ Model_get(model, "s") = {2}

\* The calls on the engine that run a combinational pass.
PassRan == {"input", "input_same", "clock", "reset"}

\* C24: a combinational pass visits the continuous assignments once, in
\* declared order, each reading the values current at that moment.  With
\* x = y declared before y = a, a pass leaves y = a and x = the y from before
\* the pass (one pass stale).  On the cycle x = ~y; y = x a pass ends, with
\* x = the negation of the old y and y = the x just written, and the call
\* returns without a panic.
C24_SingleLinearPass ==
    [][last' \in PassRan =>
          /\ model.module_name = "Fwd" =>
                /\ model'.outputs["y"] = model'.inputs["a"]
                /\ model'.outputs["x"] = model.outputs["y"]
          /\ model.module_name = "Cyc" =>
                /\ model'.outputs["x"] = (IF model.outputs["y"] = 0 THEN 1 ELSE 0)
                /\ model'.outputs["y"] = model'.outputs["x"]
                /\ ~model'.panicked]_vars

\* The forward reference one pass behind: a was changed from 10 to 20, y
\* follows and x holds the 10 that y held before.
C24_Witness ==
    /\ model.module_name = "Fwd"
    /\ last = "input"
    /\ model.inputs["a"] = 20
    /\ Model_get(model, "y") = {20}
    /\ Model_get(model, "x") = {10}

\* C25: the internals map is empty in every engine state, and an assignment
\* whose target is no output port (a variable that is no port, or an input
\* port) has no effect, wherever it stands.  In the module whose only
\* assignment to an output is c = a, clock() and reset() change nothing at
\* all, a holds the value the caller gave it and c follows a; in the module
\* with t = a; c = t, c stays 0 because t is never a signal.
C25_DroppedTargets ==
    /\ [](model.internals = EmptyMap /\ model2.internals = EmptyMap)
    /\ [](model.module_name = "Drop" =>
             /\ DOMAIN get_all_variables(model) = {"a", "c"}
             /\ model.inputs["a"] \in InputValues
             /\ model.outputs["c"] = model.inputs["a"])
    /\ [](model.module_name = "Local" => model.outputs["c"] = 0)
    /\ [][(model.module_name = "Drop" /\ last' \in {"clock", "reset"}) => model' = model]_vars

\* The module with the dropped assignments after input, reset and clock.
C25_Witness ==
    /\ model.module_name = "Drop"
    /\ was_reset
    /\ last = "clock"
    /\ model.inputs["a"] = 20
    /\ Model_get(model, "c") = {20}
    /\ model.internals = EmptyMap

\* C26: a step toggles exactly one clock, one of those with the minimum
\* pending time, and advances the time by that minimum.  The clocks that
\* shared the minimum keep their level and are then due at once (pending time
\* 0); they come first: while such a clock is waiting, the next step toggles
\* one of the waiting clocks, not again a clock already served.
C26_TieHandling ==
    [][(sim_last' = "step" /\ DOMAIN clock_intervals # {}) =>
          LET tied == {c \in DOMAIN time_to_next_clock_ns : time_to_next_clock_ns[c] = MinPending}
              toggled == {c \in DOMAIN clock_states : clock_states'[c] # clock_states[c]}
          IN  /\ Cardinality(toggled) = 1
              /\ toggled \subseteq tied
              /\ simulation_time_ns' = simulation_time_ns + MinPending
              /\ \A d \in tied \ toggled :
                    /\ time_to_next_clock_ns'[d] = 0
                    /\ clock_states'[d] = clock_states[d]
              /\ waiting # {} => (toggled \subseteq waiting /\ MinPending = 0)]_vars

\* The smallest half period of the clock table.
MinHalfPeriod ==
    CHOOSE h \in {clock_intervals[c] \div 2 : c \in DOMAIN clock_intervals} :
        \A c \in DOMAIN clock_intervals : h <= clock_intervals[c] \div 2

\* C27: in every state of the simulator each clock's pending time lies
\* between 0 and floor(period / 2); and when all periods are at least 2 and
\* run(D) with D > 0 has returned, the time is at least the start time plus D
\* and less than that plus the smallest floor(period / 2).
C27_PendingBounds ==
    /\ DOMAIN time_to_next_clock_ns = DOMAIN clock_intervals
    /\ \A c \in DOMAIN clock_intervals :
          /\ time_to_next_clock_ns[c] >= 0
          /\ time_to_next_clock_ns[c] <= clock_intervals[c] \div 2
    /\ (/\ sim_last = "finish"
        /\ duration_ns > 0
        /\ DOMAIN clock_intervals # {}
        /\ \A c \in DOMAIN clock_intervals : clock_intervals[c] >= 2) =>
          /\ start_time + duration_ns <= simulation_time_ns
          /\ simulation_time_ns < start_time + duration_ns + MinHalfPeriod

\* Periods 4 and 6: a run of 2 ns that began at 3 has returned at 6, past
\* its end 5 and below the bound 5 + 2.
C27_Witness ==
    /\ sim_last = "finish"
    /\ clock_intervals = [clk |-> 4, clk2 |-> 6]
    /\ start_time = 3
    /\ duration_ns = 2
    /\ simulation_time_ns = 6

\* The clocks of the table with an even period of at least 2.
EvenClocks == {d \in DOMAIN clock_intervals : clock_intervals[d] >= 2 /\ clock_intervals[d] % 2 = 0}

\* C28: for every clock d with an even period P (h = P / 2), whatever other
\* clocks the table has: the next edge of d is due at a multiple of h, the
\* first at h, at most h ahead, and d is high exactly when an odd number of
\* its edges lie behind.  Its edges are therefore processed one after another
\* at h, 2h, 3h, ...: rising at P/2 + k*P, falling at k*P (k >= 1).  A step
\* toggles d only at the time the edge is due, and a rising edge runs the
\* engine's clock() once (the counter of the engine counts by one), a falling
\* edge not at all.
C28_IndependentDomains ==
    /\ [](\A d \in EvenClocks :
             LET h == clock_intervals[d] \div 2
                 due == simulation_time_ns + time_to_next_clock_ns[d]
             IN  /\ due % h = 0
                 /\ due >= h
                 /\ time_to_next_clock_ns[d] <= h
                 /\ clock_states[d] = (((due \div h) - 1) % 2 = 1))
    /\ [][sim_last' = "step" =>
             \A d \in EvenClocks :
                 clock_states'[d] # clock_states[d] =>
                     /\ simulation_time_ns' = simulation_time_ns + time_to_next_clock_ns[d]
                     /\ clock_states'[d] =
                           ((simulation_time_ns' \div (clock_intervals[d] \div 2)) % 2 = 1)
                     /\ (clock_states'[d] /\ edges < MaxEdges) =>
                           model'.outputs["b"] = model.outputs["b"] + 1
                     /\ ~clock_states'[d] => model' = model]_vars

\* Periods 4 and 6, in a run begun in the state reset() leaves: at time 6 clk
\* has had its edges at 2, 4 and 6 and is high, clk2 those at 3 and 6 and is low.
C28_Witness ==
    /\ clock_intervals = [clk |-> 4, clk2 |-> 6]
    /\ sim_last = "step"
    /\ fresh
    /\ start_time = 0
    /\ simulation_time_ns = 6
    /\ clock_states = [clk |-> TRUE, clk2 |-> FALSE]
    /\ time_to_next_clock_ns = [clk |-> 2, clk2 |-> 3]

\* C29: clock(), reset() and input with an unknown name (and the passes they
\* run) leave every input value as it was; input with a known name leaves
\* the inputs as they were except for one name, which holds a value given by
\* the caller.  This also holds of a call that panics, and in either hash order.
C29_InputFrame ==
    [][\A pair \in {<< model, model' >>, << model2, model2' >>} :
          LET before == pair[1].inputs
              after == pair[2].inputs
          IN  /\ last' \in {"clock", "reset", "input_unknown"} => after = before
              /\ last' = "input_same" => after = before
              /\ last' = "input" =>
                    \E n \in DOMAIN before :
                        /\ after[n] \in InputValues
                        /\ after[n] # before[n]
                        /\ after = [before EXCEPT ![n] = after[n]]]_vars

\* c = a + b: b was given 30 and reset() and clock() were called; a still
\* holds the 10 from the init map.
C29_Witness ==
    /\ model.module_name = "CombTest"
    /\ model.inputs = [a |-> 10, b |-> 30]
    /\ was_reset
    /\ last = "clock"
    /\ Model_get(model, "c") = {40}
====
